---- MODULE Spec2Model ----
(***************************************************************************)
(* A model of the MP3 tag editor: the MP3Tagger class (mp3_tagger.py and   *)
(* its copy in app.py), the command-line menu of mp3_tagger.main and the   *)
(* Flask handlers index and edit_tags of app.py.                           *)
(*                                                                         *)
(* Text is a sequence of characters, each character a one-element string;  *)
(* a character outside ASCII is written by its code point ("U+00A9").      *)
(* A path is a record [dir, name]: os.path.join(dir, name), whose          *)
(* os.path.dirname is dir.  A file on disk is [header, frames]: the state  *)
(* of its ID3 block as the tag library reads it.                           *)
(***************************************************************************)
EXTENDS Integers, Sequences, FiniteSets, TLC

\* mode      which entry point runs: "lib" (a caller of the class), "cli", "web"
\* fs        the files on disk: path -> [header, frames]
\* tagger    the caller's MP3Tagger object, if any: [file_path, tags]
\* last      the last call or request and its result
\* nsets     set_tag calls (lib) or menu edits (cli) made so far
\* pc        where the caller or the menu loop stands
\* session   per browser, flask's session: token -> path of the upload
\* nextToken the next token uuid4 hands out
\* request   the form of the request being served
VARIABLES mode, fs, tagger, last, nsets, pc, session, nextToken, request

vars == <<mode, fs, tagger, last, nsets, pc, session, nextToken, request>>

---------------------------------------------------------------------------
(* Bounds *)

\* Longest text a caller passes to set_tag or types into a prompt or form.
MaxLen == 2
\* set_tag calls a library caller makes on one object.
MaxSets == 1
\* Menu choices 1-5 (edits) made on one run of the command-line front end.
MaxEdits == 2
\* Uploads accepted by the web front end on one run.
MaxUploads == 2

---------------------------------------------------------------------------
(* Text *)

\* n spaces.
Pad(n) == [i \in 1..n |-> " "]

Words == {<<>>, <<"a">>}

\* The texts a caller passes: a word or nothing, with spaces before and after.
Texts ==
    {t \in {Pad(i) \o w \o Pad(k) : i \in 0..MaxLen, k \in 0..MaxLen, w \in Words} :
        Len(t) <= MaxLen}

\* str.isspace for the characters of the model.
IsSpace(c) == c \in {" ", "\t", "\n"}

RECURSIVE lstrip(_)
lstrip(s) ==
    IF s # <<>> /\ IsSpace(Head(s)) THEN lstrip(Tail(s)) ELSE s

RECURSIVE rstrip(_)
rstrip(s) ==
    IF s # <<>> /\ IsSpace(s[Len(s)]) THEN rstrip(SubSeq(s, 1, Len(s) - 1)) ELSE s

\* str.strip(): leading and trailing whitespace removed.
strip(s) == rstrip(lstrip(s))

UpperCase == <<"A", "B", "C", "D", "E", "F", "G", "H", "I", "J", "K", "L", "M",
               "N", "O", "P", "Q", "R", "S", "T", "U", "V", "W", "X", "Y", "Z">>

LowerCase == <<"a", "b", "c", "d", "e", "f", "g", "h", "i", "j", "k", "l", "m",
               "n", "o", "p", "q", "r", "s", "t", "u", "v", "w", "x", "y", "z">>

\* str.lower(), character by character.
lower(s) ==
    [i \in 1..Len(s) |->
        IF \E k \in 1..26 : UpperCase[k] = s[i]
        THEN LowerCase[CHOOSE k \in 1..26 : UpperCase[k] = s[i]]
        ELSE s[i]]

\* str.endswith(suffix).
endswith(s, suffix) ==
    /\ Len(s) >= Len(suffix)
    /\ SubSeq(s, Len(s) - Len(suffix) + 1, Len(s)) = suffix

\* The separator.join(list) of Python, on a list of texts.
RECURSIVE join(_, _)
join(sep, list) ==
    IF list = <<>> THEN <<>>
    ELSE IF Len(list) = 1 THEN list[1]
    ELSE list[1] \o sep \o join(sep, Tail(list))

DotMp3 == <<".", "m", "p", "3">>

Untitled == <<"U", "n", "t", "i", "t", "l", "e", "d">>

\* The f-string tail of the new file's name: " ", U+00A9, U+FE0F, " Stiftelsen ...".
FilenameSuffix ==
    <<" ", "U+00A9", "U+FE0F", " ", "S", "t", "i", "f", "t", "e", "l", "s", "e", "n",
      " ", "S", "k", "j", "u", "l", "t", "e", " ", "S", "k", "a", "t", "t", "e", "r",
      " ", "F", "o", "r", "l", "a", "g", ".", "m", "p", "3">>

DefaultCopyright ==
    <<"C", "o", "p", "y", "r", "i", "g", "h", "t", " ", "U+00A9", " ", "S", "t", "i",
      "f", "t", "e", "l", "s", "e", "n", " ", "S", "k", "j", "u", "l", "t", "e", " ",
      "S", "k", "a", "t", "t", "e", "r", "s", " ", "F", "o", "r", "l", "a", "g", ".",
      " ", "A", "l", "l", " ", "R", "i", "g", "h", "t", "s", " ", "R", "e", "s", "e",
      "r", "v", "e", "d", ".">>

CliComment ==
    <<"w", "w", "w", ".", "a", "c", "t", "i", "v", "e", "c", "h", "r", "i", "s", "t",
      "i", "a", "n", "i", "t", "y", ".", "o", "r", "g">>

WebComment ==
    <<"h", "t", "t", "p", "s", ":", "/", "/", "a", "c", "t", "i", "v", "e", "c", "h",
      "r", "i", "s", "t", "i", "a", "n", "i", "t", "y", ".", "o", "r", "g">>

---------------------------------------------------------------------------
(* Frames and the tag library *)

None == "None"

NoFrames == <<>>

\* The six logical names, and a name outside the catalog.
TagNames == {"title", "artist", "lyricist", "composer", "copyright", "comment"}

AnyNames == TagNames \cup {"genre"}

\* get_tag's tag_map: logical name -> key of the frame in self.tags.
get_tag_map ==
    [title |-> "TIT2", artist |-> "TPE1", lyricist |-> "TEXT",
     composer |-> "TCOM", copyright |-> "TCOP", comment |-> "COMM::eng"]

\* set_tag's tag_map: logical name -> frame class (by its __name__).
set_tag_map ==
    [title |-> "TIT2", artist |-> "TPE1", lyricist |-> "TEXT",
     composer |-> "TCOM", copyright |-> "TCOP", comment |-> "COMM"]

\* frame_class(encoding=3, text=value): a text frame holds a list of texts.
TextFrame(cls, value) == [cls |-> cls, encoding |-> 3, text |-> <<value>>]

\* COMM(encoding=3, lang='eng', desc='', text=value).
CommFrame(value) ==
    [cls |-> "COMM", encoding |-> 3, lang |-> "eng", desc |-> <<>>, text |-> <<value>>]

\* str(frame) of a text frame: its texts joined by NUL.
FrameStr(frame) == join(<<"\\0">>, frame.text)

\* tags[key] = frame.
PutFrame(tags, key, frame) ==
    [k \in DOMAIN tags \cup {key} |-> IF k = key THEN frame ELSE tags[k]]

\* del tags[key].
DelFrame(tags, key) == [k \in DOMAIN tags \ {key} |-> tags[k]]

---------------------------------------------------------------------------
(* The filesystem and the files a run starts with *)

Path(dir, name) == [dir |-> dir, name |-> name]

\* A file as the tag library reads it: header is "ok" (an ID3 block that parses),
\* "none" (no ID3 block) or "unsupported" (a block ID3() rejects with ID3Error).
File(header, frames) == [header |-> header, frames |-> frames]

SongA == Path("music", <<"a", ".", "m", "p", "3">>)

SongB == Path("music", <<"b", ".", "M", "P", "3">>)

SongU == Path("music", <<"u", ".", "m", "p", "3">>)

\* A file an earlier run produced from a song titled "a".
PrevOut == Path("music", <<"a">> \o FilenameSuffix)

NotesTxt == Path("music", <<"c", ".", "t", "x", "t">>)

MissingMp3 == Path("music", <<"x", ".", "m", "p", "3">>)

MissingTxt == Path("music", <<"x", ".", "t", "x", "t">>)

FramesB ==
    [k \in {"TIT2", "TCOP", "TALB"} |->
        CASE k = "TIT2" -> TextFrame("TIT2", <<"a">>)
          [] k = "TCOP" -> TextFrame("TCOP", <<" ">>)
          [] k = "TALB" -> TextFrame("TALB", <<"b">>)]

FramesPrev ==
    [k \in {"TIT2", "TCOP", "COMM::eng"} |->
        CASE k = "TIT2" -> TextFrame("TIT2", <<"a">>)
          [] k = "TCOP" -> TextFrame("TCOP", <<"a">>)
          [] k = "COMM::eng" -> CommFrame(<<"a">>)]

InitialFiles ==
    [p \in {SongA, SongB, SongU, PrevOut, NotesTxt} |->
        CASE p = SongA -> File("none", NoFrames)
          [] p = SongB -> File("ok", FramesB)
          [] p = SongU -> File("unsupported", FramesB)
          [] p = PrevOut -> File("ok", FramesPrev)
          [] p = NotesTxt -> File("none", NoFrames)]

ArgPaths == {SongA, SongB, SongU, PrevOut, NotesTxt, MissingMp3, MissingTxt}

OutputDirs == {None, "out"}

\* os.path.exists(path).
exists(files, path) == path \in DOMAIN files

\* files with the content of path replaced (or created).
WriteFile(files, path, file) ==
    [p \in DOMAIN files \cup {path} |-> IF p = path THEN file ELSE files[p]]

\* os.unlink(path).
unlink(files, path) == [p \in DOMAIN files \ {path} |-> files[p]]

---------------------------------------------------------------------------
(* class MP3Tagger *)

\* A _load_tags without the except clause's empty ID3(): whatever frames the
\* file's block holds are taken, parseable or not.
load_tags_unguarded(files, file_path) == files[file_path].frames

\* _load_tags: ID3(file_path), or ID3() when the library raises ID3Error.
load_tags(files, file_path) ==
    IF files[file_path].header = "ok" THEN files[file_path].frames ELSE NoFrames

\* An __init__ whose extension check omits lower().
MP3Tagger_case_sensitive(files, file_path) ==
    IF ~exists(files, file_path)
    THEN [err |-> "FileNotFoundError", obj |-> None]
    ELSE IF ~endswith(file_path.name, DotMp3)
    THEN [err |-> "ValueError", obj |-> None]
    ELSE [err |-> "", obj |-> [file_path |-> file_path,
                                tags |-> load_tags(files, file_path)]]

\* __init__: the two checks, then the load.
MP3Tagger(files, file_path) ==
    IF ~exists(files, file_path)
    THEN [err |-> "FileNotFoundError", obj |-> None]
    ELSE IF ~endswith(lower(file_path.name), DotMp3)
    THEN [err |-> "ValueError", obj |-> None]
    ELSE [err |-> "", obj |-> [file_path |-> file_path,
                                tags |-> load_tags(files, file_path)]]

\* A get_tag that answers '' for a name outside its tag_map.
get_tag_lenient(tags, tag_name) ==
    IF tag_name \in DOMAIN get_tag_map /\ get_tag_map[tag_name] \in DOMAIN tags
    THEN [err |-> "", ret |-> FrameStr(tags[get_tag_map[tag_name]])]
    ELSE [err |-> "", ret |-> <<>>]

get_tag(tags, tag_name) ==
    IF tag_name \notin DOMAIN get_tag_map
    THEN [err |-> "ValueError", ret |-> None]
    ELSE LET frame_id == get_tag_map[tag_name]
         IN  IF frame_id \in DOMAIN tags
             THEN [err |-> "", ret |-> FrameStr(tags[frame_id])]
             ELSE [err |-> "", ret |-> <<>>]

\* A set_tag whose tag_map sends 'composer' to TEXT, the lyricist's frame.
set_tag_shared_frame(tags, tag_name, value) ==
    IF tag_name \notin DOMAIN set_tag_map
    THEN [err |-> "ValueError", tags |-> tags]
    ELSE LET frame_id == CASE tag_name = "comment" -> "COMM::eng"
                           [] tag_name = "composer" -> "TEXT"
                           [] OTHER -> set_tag_map[tag_name]
         IN  IF strip(value) # <<>>
             THEN [err |-> "",
                   tags |-> PutFrame(tags, frame_id,
                                     IF tag_name = "comment" THEN CommFrame(value)
                                     ELSE TextFrame(frame_id, value))]
             ELSE [err |-> "", tags |-> DelFrame(tags, frame_id)]

\* A set_tag without the delete branch: a blank value is stored as ''.
set_tag_stores_empty(tags, tag_name, value) ==
    IF tag_name \notin DOMAIN set_tag_map
    THEN [err |-> "ValueError", tags |-> tags]
    ELSE LET frame_id == IF tag_name = "comment" THEN "COMM::eng"
                         ELSE set_tag_map[tag_name]
             text == IF strip(value) # <<>> THEN value ELSE <<>>
         IN  [err |-> "",
              tags |-> PutFrame(tags, frame_id,
                                IF tag_name = "comment" THEN CommFrame(text)
                                ELSE TextFrame(frame_id, text))]

set_tag(tags, tag_name, value) ==
    IF tag_name \notin DOMAIN set_tag_map
    THEN [err |-> "ValueError", tags |-> tags]
    ELSE LET frame_class == set_tag_map[tag_name]
         IN  IF strip(value) # <<>>
             THEN IF tag_name = "comment"
                  THEN [err |-> "", tags |-> PutFrame(tags, "COMM::eng", CommFrame(value))]
                  ELSE [err |-> "",
                        tags |-> PutFrame(tags, frame_class, TextFrame(frame_class, value))]
             ELSE LET frame_id == IF tag_name = "comment" THEN "COMM::eng"
                                  ELSE frame_class
                  IN  IF frame_id \in DOMAIN tags
                      THEN [err |-> "", tags |-> DelFrame(tags, frame_id)]
                      ELSE [err |-> "", tags |-> tags]

get_all_tags(tags) ==
    [n \in TagNames |-> get_tag(tags, n).ret]

\* A file name without the "Untitled" fallback.
new_filename_no_fallback(tags) == get_tag(tags, "title").ret \o FilenameSuffix

\* The name save_as_new_file gives the new file.
new_filename(tags) ==
    LET title == get_tag(tags, "title").ret
    IN  (IF title = <<>> THEN Untitled ELSE title) \o FilenameSuffix

\* mp3_tagger.py: the path of the new file, in output_directory or beside the source.
output_path_of(obj, output_directory) ==
    IF output_directory # None
    THEN Path(output_directory, new_filename(obj.tags))
    ELSE Path(obj.file_path.dir, new_filename(obj.tags))

\* app.py: the path of the new file, in the directory of output_path.
final_path_of(obj, output_path) ==
    Path(output_path.dir, new_filename(obj.tags))

\* tags.save(path): the file's ID3 block becomes the frames in memory.
id3_save(files, tags, path) == WriteFile(files, path, File("ok", tags))

\* The outcomes of shutil.copy2 followed by tags.save: the copy raises
\* (SameFileError when both paths are one file, or an I/O error), the save
\* raises after the copy was made, or both succeed.
CopyOutcomes(obj, path) ==
    IF path = obj.file_path THEN {"SameFileError"}
    ELSE {"ok", "copy_fails", "save_fails"}

\* A save-as that writes the frames into the source as well as into the copy.
copy_and_save_both(files, obj, path, outcome) ==
    IF outcome \in {"SameFileError", "copy_fails"} \/ ~exists(files, obj.file_path)
    THEN [err |-> IF outcome = "SameFileError" THEN "SameFileError" ELSE "OSError",
          files |-> files, ret |-> None]
    ELSE LET copied == WriteFile(files, path, files[obj.file_path])
         IN  IF outcome = "save_fails"
             THEN [err |-> "OSError", files |-> copied, ret |-> None]
             ELSE [err |-> "",
                   files |-> id3_save(id3_save(copied, obj.tags, path),
                                      obj.tags, obj.file_path),
                   ret |-> path]

copy_and_save(files, obj, path, outcome) ==
    IF outcome \in {"SameFileError", "copy_fails"} \/ ~exists(files, obj.file_path)
    THEN [err |-> IF outcome = "SameFileError" THEN "SameFileError" ELSE "OSError",
          files |-> files, ret |-> None]
    ELSE LET copied == WriteFile(files, path, files[obj.file_path])
         IN  IF outcome = "save_fails"
             THEN [err |-> "OSError", files |-> copied, ret |-> None]
             ELSE [err |-> "", files |-> id3_save(copied, obj.tags, path), ret |-> path]

---------------------------------------------------------------------------
(* State *)

\* What the last call or request was and how it ended: err is "" for a normal
\* return and the exception's name otherwise.
Call(op, err, ret) == [op |-> op, err |-> err, ret |-> ret]

\* The browsers talking to the web front end, each with its own session cookie.
Clients == {"c1", "c2"}

\* The caller's MP3Tagger: <<>> while it holds none, <<obj>> once constructed.
NoTagger == <<>>

Self == tagger[1]

\* The edit form's fields.
Form(title, artist, lyricist, composer, copyright) ==
    [title |-> title, artist |-> artist, lyricist |-> lyricist,
     composer |-> composer, copyright |-> copyright]

EmptyForm == Form(<<>>, <<>>, <<>>, <<>>, <<>>)

Init ==
    /\ mode \in {"lib", "cli", "web"}
    /\ fs = IF mode = "web" THEN <<>> ELSE InitialFiles
    /\ tagger = NoTagger
    /\ last = Call("start", "", None)
    /\ nsets = 0
    /\ pc = CASE mode = "lib" -> "new" [] mode = "cli" -> "main" [] mode = "web" -> "serving"
    /\ session = [c \in Clients |-> <<>>]
    /\ nextToken = 1
    /\ request = [form |-> EmptyForm]

---------------------------------------------------------------------------
(* Library use: a caller holding one MP3Tagger (as test_existing_file.py     *)
(* does): it constructs the object, reads and sets fields, and makes one     *)
(* call to save or save_as_new_file, after which it drops the object.        *)

Construct(file_path) ==
    /\ mode = "lib"
    /\ pc = "new"
    /\ \E r \in {MP3Tagger(fs, file_path)} :
           /\ tagger' = IF r.err = "" THEN <<r.obj>> ELSE NoTagger
           /\ pc' = IF r.err = "" THEN "loaded" ELSE "new"
           /\ last' = Call("init", r.err, file_path)
    /\ UNCHANGED <<mode, fs, nsets, session, nextToken, request>>

GetTag(tag_name) ==
    /\ mode = "lib"
    /\ pc = "loaded"
    /\ \E r \in {get_tag(Self.tags, tag_name)} :
           last' = Call("get_tag", r.err, r.ret)
    /\ UNCHANGED <<mode, fs, tagger, nsets, pc, session, nextToken, request>>

SetTag(tag_name, value) ==
    /\ mode = "lib"
    /\ pc = "loaded"
    /\ nsets < MaxSets
    /\ nsets' = nsets + 1
    /\ \E r \in {set_tag(Self.tags, tag_name, value)} :
           /\ tagger' = <<[Self EXCEPT !.tags = r.tags]>>
           /\ last' = Call("set_tag", r.err, None)
    /\ UNCHANGED <<mode, fs, pc, session, nextToken, request>>

GetAllTags ==
    /\ mode = "lib"
    /\ pc = "loaded"
    /\ last' = Call("get_all_tags", "", get_all_tags(Self.tags))
    /\ UNCHANGED <<mode, fs, tagger, nsets, pc, session, nextToken, request>>

\* save(): tags.save(self.file_path), which may raise on an I/O failure.
Save(fails) ==
    /\ mode = "lib"
    /\ pc = "loaded"
    /\ pc' = "terminal"
    /\ IF fails
       THEN /\ fs' = fs
            /\ last' = Call("save", "OSError", None)
       ELSE /\ fs' = id3_save(fs, Self.tags, Self.file_path)
            /\ last' = Call("save", "", None)
    /\ UNCHANGED <<mode, tagger, nsets, session, nextToken, request>>

\* mp3_tagger.py's save_as_new_file(output_directory).
SaveAsNewFile(output_directory, outcome) ==
    /\ mode = "lib"
    /\ pc = "loaded"
    /\ \E output_path \in {output_path_of(Self, output_directory)} :
           /\ outcome \in CopyOutcomes(Self, output_path)
           /\ \E r \in {copy_and_save(fs, Self, output_path, outcome)} :
                  /\ fs' = r.files
                  /\ pc' = "terminal"
                  /\ last' = Call("save_as_new_file", r.err, r.ret)
    /\ UNCHANGED <<mode, tagger, nsets, session, nextToken, request>>

LibNext ==
    \/ \E file_path \in ArgPaths : Construct(file_path)
    \/ \E tag_name \in AnyNames : GetTag(tag_name)
    \/ \E tag_name \in AnyNames, value \in Texts : SetTag(tag_name, value)
    \/ GetAllTags
    \/ \E fails \in BOOLEAN : Save(fails)
    \/ \E output_directory \in OutputDirs,
          outcome \in {"ok", "copy_fails", "save_fails", "SameFileError"} :
            SaveAsNewFile(output_directory, outcome)

---------------------------------------------------------------------------
(* The command-line front end: mp3_tagger.main *)

\* edit_tag's menu entries 1-5.
MenuTags == {"title", "artist", "lyricist", "composer", "copyright"}

\* main: MP3Tagger(sys.argv[1]); an error is printed and the program exits.
CliStart(mp3_file) ==
    /\ mode = "cli"
    /\ pc = "main"
    /\ \E r \in {MP3Tagger(fs, mp3_file)} :
           /\ tagger' = IF r.err = "" THEN <<r.obj>> ELSE NoTagger
           /\ pc' = IF r.err = "" THEN "menu" ELSE "exit"
           /\ last' = Call("main", r.err, mp3_file)
    /\ UNCHANGED <<mode, fs, nsets, session, nextToken, request>>

\* Choices 1-5: edit_tag reads the current value, strips the input and sets it.
CliEdit(tag_name, input) ==
    /\ mode = "cli"
    /\ pc = "menu"
    /\ nsets < MaxEdits
    /\ nsets' = nsets + 1
    /\ \E new_value \in {strip(input)} :
       \E r \in {set_tag(Self.tags, tag_name, new_value)} :
           /\ tagger' = <<[Self EXCEPT !.tags = r.tags]>>
           /\ last' = Call("edit_tag", r.err, new_value)
    /\ UNCHANGED <<mode, fs, pc, session, nextToken, request>>

OrElse(text, fallback) == IF strip(text) # <<>> THEN strip(text) ELSE fallback

\* Choice 6: the song info block, with its fallback strings.
CliSongInfo ==
    /\ mode = "cli"
    /\ pc = "menu"
    /\ last' = Call("song_info", "",
                    [title |-> OrElse(get_tag(Self.tags, "title").ret, Untitled),
                     artist |-> OrElse(get_tag(Self.tags, "artist").ret,
                                       <<"U", "n", "k", "n", "o", "w", "n", " ",
                                         "A", "r", "t", "i", "s", "t">>),
                     lyricist |-> OrElse(get_tag(Self.tags, "lyricist").ret,
                                         <<"U", "n", "k", "n", "o", "w", "n">>),
                     composer |-> OrElse(get_tag(Self.tags, "composer").ret,
                                         <<"U", "n", "k", "n", "o", "w", "n">>)])
    /\ UNCHANGED <<mode, fs, tagger, nsets, pc, session, nextToken, request>>

\* Choice 7's changes to the tags before the file is written.
cli_defaults(tags) ==
    LET current_copyright == get_tag(tags, "copyright").ret
        with_copyright == IF strip(current_copyright) = <<>>
                          THEN set_tag(tags, "copyright", DefaultCopyright).tags
                          ELSE tags
    IN  set_tag(with_copyright, "comment", CliComment).tags

\* Choice 7: default copyright, fixed comment, save_as_new_file(); an exception
\* is printed and the menu goes on.
CliSaveAs(outcome) ==
    /\ mode = "cli"
    /\ pc = "menu"
    /\ \E obj \in {[Self EXCEPT !.tags = cli_defaults(Self.tags)]} :
       \E output_path \in {output_path_of(obj, None)} :
           /\ outcome \in CopyOutcomes(obj, output_path)
           /\ \E r \in {copy_and_save(fs, obj, output_path, outcome)} :
                  /\ tagger' = <<obj>>
                  /\ fs' = r.files
                  /\ last' = Call("menu_save_as", r.err, r.ret)
    /\ UNCHANGED <<mode, nsets, pc, session, nextToken, request>>

\* Choice 8.
CliExit ==
    /\ mode = "cli"
    /\ pc = "menu"
    /\ pc' = "exit"
    /\ last' = Call("exit", "", None)
    /\ UNCHANGED <<mode, fs, tagger, nsets, session, nextToken, request>>

CliNext ==
    \/ \E mp3_file \in ArgPaths : CliStart(mp3_file)
    \/ \E tag_name \in MenuTags, input \in Texts : CliEdit(tag_name, input)
    \/ CliSongInfo
    \/ \E outcome \in {"ok", "copy_fails", "save_fails", "SameFileError"} :
          CliSaveAs(outcome)
    \/ CliExit

---------------------------------------------------------------------------
(* The web front end: app.py's index and edit_tags *)

UploadFolder == "upload"

\* Characters secure_filename keeps: ASCII letters, digits, "_", "." and "-".
IsSafeChar(c) ==
    \/ \E k \in 1..26 : c = UpperCase[k] \/ c = LowerCase[k]
    \/ c \in {"0", "1", "2", "3", "4", "5", "6", "7", "8", "9", "_", ".", "-"}

\* "_".join(filename.split()) with the characters outside the safe set removed.
RECURSIVE ascii_join(_, _)
ascii_join(s, pending) ==
    IF s = <<>> THEN <<>>
    ELSE IF IsSpace(Head(s)) \/ Head(s) = "/" THEN ascii_join(Tail(s), TRUE)
    ELSE IF ~IsSafeChar(Head(s)) THEN ascii_join(Tail(s), pending)
    ELSE (IF pending THEN <<"_">> ELSE <<>>) \o <<Head(s)>> \o ascii_join(Tail(s), FALSE)

RECURSIVE strip_dots(_)
strip_dots(s) ==
    IF s # <<>> /\ Head(s) \in {".", "_"} THEN strip_dots(Tail(s))
    ELSE IF s # <<>> /\ s[Len(s)] \in {".", "_"} THEN strip_dots(SubSeq(s, 1, Len(s) - 1))
    ELSE s

\* werkzeug's secure_filename, as index calls it.
secure_filename(filename) == strip_dots(ascii_join(lstrip(filename), FALSE))

FramesUp ==
    [k \in {"TCOP", "COMM::eng"} |->
        CASE k = "TCOP" -> TextFrame("TCOP", <<"a">>)
          [] k = "COMM::eng" -> CommFrame(<<"a">>)]

\* The uploads a browser makes: a file name ("" stands for a request with no
\* file chosen) and the file's content (no tag block, or a copyright and a
\* comment).
Uploads ==
    {<<(<<>>), File("none", NoFrames)>>,
     <<(<<"a", ".", "m", "p", "3">>), File("ok", FramesUp)>>,
     <<(<<" ", "a", ".", "m", "p", "3">>), File("none", NoFrames)>>,
     <<(<<"c", ".", "t", "x", "t">>), File("none", NoFrames)>>}

\* Submitted forms: the title empty or padded, the copyright empty,
\* whitespace-only or padded.
Forms ==
    {Form(<<>>, <<"a">>, <<>>, <<" ">>, <<>>),
     Form(<<" ", "a">>, <<"a">>, <<>>, <<" ">>, <<" ">>),
     Form(<<" ", "a">>, <<"a">>, <<>>, <<" ">>, <<" ", "a">>)}

\* index, POST: the upload is stored under its secured name, and a fresh token
\* (uuid4) in the browser's session maps to that path.
Upload(c, filename, content) ==
    /\ mode = "web"
    /\ nextToken <= MaxUploads
    /\ IF filename = <<>>
       THEN /\ last' = Call("index", "No file selected", None)
            /\ UNCHANGED <<fs, session, nextToken>>
       ELSE IF endswith(lower(filename), DotMp3)
       THEN \E file_path \in {Path(UploadFolder, secure_filename(filename))} :
            \E session_id \in {nextToken} :
                /\ fs' = WriteFile(fs, file_path, content)
                /\ session' = [session EXCEPT ![c] =
                                  [t \in DOMAIN session[c] \cup {session_id} |->
                                      IF t = session_id THEN file_path ELSE session[c][t]]]
                /\ nextToken' = nextToken + 1
                /\ last' = Call("index", "", session_id)
       ELSE /\ last' = Call("index", "Please upload a valid MP3 file", None)
            /\ UNCHANGED <<fs, session, nextToken>>
    /\ request' = [form |-> EmptyForm]
    /\ UNCHANGED <<mode, tagger, nsets, pc>>

\* An edit_tags that writes the submitted copyright as it is, with no default,
\* and leaves the comment alone.
web_tags_as_submitted(tags, form) ==
    LET t1 == set_tag(tags, "title", form.title).tags
        t2 == set_tag(t1, "artist", form.artist).tags
        t3 == set_tag(t2, "lyricist", form.lyricist).tags
        t4 == set_tag(t3, "composer", form.composer).tags
    IN  set_tag(t4, "copyright", form.copyright).tags

\* The tags edit_tags writes for a submitted form.
web_tags(tags, form) ==
    LET stripped == strip(form.copyright)
        copyright_value == IF stripped = <<>> THEN DefaultCopyright ELSE stripped
        t1 == set_tag(tags, "title", form.title).tags
        t2 == set_tag(t1, "artist", form.artist).tags
        t3 == set_tag(t2, "lyricist", form.lyricist).tags
        t4 == set_tag(t3, "composer", form.composer).tags
        t5 == set_tag(t4, "copyright", copyright_value).tags
    IN  set_tag(t5, "comment", WebComment).tags

\* A submit that leaves the token in the session.
KeepToken(c, session_id) == session

\* del session[session_id].
DropToken(c, session_id) ==
    [session EXCEPT ![c] = [t \in DOMAIN session[c] \ {session_id} |-> session[c][t]]]

\* os.path.join(app.config['UPLOAD_FOLDER'], 'output.mp3').
OutputMp3 == Path(UploadFolder, <<"o", "u", "t", "p", "u", "t", ".", "m", "p", "3">>)

\* How app.py's save_as_new_file(output_path) may end.
WebOutcomes == {"ok", "copy_fails", "save_fails"}

\* edit_tags, GET: the form, filled from get_all_tags.
EditGet(c, session_id) ==
    /\ mode = "web"
    /\ IF session_id \notin DOMAIN session[c]
       THEN last' = Call("edit_get", "Session expired", None)
       ELSE \E r \in {MP3Tagger(fs, session[c][session_id])} :
                IF r.err # ""
                THEN last' = Call("edit_get", "Error loading file", None)
                ELSE last' = Call("edit_get", "", get_all_tags(r.obj.tags))
    /\ request' = [form |-> EmptyForm]
    /\ UNCHANGED <<mode, fs, tagger, nsets, pc, session, nextToken>>

\* edit_tags, POST: the submit.
EditPost(c, session_id, form, outcome) ==
    /\ mode = "web"
    /\ IF session_id \notin DOMAIN session[c]
       THEN /\ last' = Call("edit_post", "Session expired", None)
            /\ UNCHANGED <<fs, session>>
       ELSE \E file_path \in {session[c][session_id]} :
            \E r \in {MP3Tagger(fs, file_path)} :
                IF r.err # ""
                THEN /\ last' = Call("edit_post", "Error loading file", None)
                     /\ UNCHANGED <<fs, session>>
                ELSE \E obj \in {[r.obj EXCEPT !.tags = web_tags(r.obj.tags, form)]} :
                     \E final_path \in {final_path_of(obj, OutputMp3)} :
                     \E w \in {copy_and_save(fs, obj, final_path, outcome)} :
                         IF w.err # ""
                         THEN /\ fs' = w.files
                              /\ session' = session
                              /\ last' = Call("edit_post", "Error creating file", None)
                         ELSE /\ fs' = unlink(w.files, file_path)
                              /\ session' = DropToken(c, session_id)
                              /\ last' = Call("edit_post", "", w.ret)
    /\ request' = [form |-> form]
    /\ UNCHANGED <<mode, tagger, nsets, pc, nextToken>>

Tokens == 1..MaxUploads

WebNext ==
    \/ \E c \in Clients, up \in Uploads : Upload(c, up[1], up[2])
    \/ \E c \in Clients, session_id \in Tokens : EditGet(c, session_id)
    \/ \E c \in Clients, session_id \in Tokens :
          IF session_id \in DOMAIN session[c]
          THEN \E form \in Forms, outcome \in WebOutcomes :
                  EditPost(c, session_id, form, outcome)
          ELSE EditPost(c, session_id, EmptyForm, "ok")

Next == LibNext \/ CliNext \/ WebNext

Spec == Init /\ [][Next]_vars

---------------------------------------------------------------------------
(* Properties *)

SaveOutcomes == {"ok", "copy_fails", "save_fails", "SameFileError"}

IsBlank(v) == \A i \in 1..Len(v) : v[i] = " "

\* What getField(name) returns for the object in the next state.
GetAfter(tag_name) == get_tag(tagger'[1].tags, tag_name).ret

\* C1: for each of the six logical names and every text v, setField(name, v)
\* followed immediately by getField(name) returns v with its surrounding
\* whitespace trimmed (the empty string when v is empty or whitespace-only).
C1_SetThenGetTrimmed ==
    [][\A n \in TagNames, v \in Texts :
          SetTag(n, v) => GetAfter(n) = strip(v)]_vars

\* C2: a successful saveAsNewFile leaves the source file's stored frames as they
\* were, returns the path of a second file, distinct from the source, both
\* existing, whose frames are the frames in memory at the call, and changes no
\* field in memory.
C2_SaveAsKeepsSourceWritesMemory ==
    [][\A d \in OutputDirs, o \in SaveOutcomes :
          (SaveAsNewFile(d, o) /\ last'.err = "") =>
              /\ exists(fs', Self.file_path)
              /\ fs'[Self.file_path] = fs[Self.file_path]
              /\ last'.ret # Self.file_path
              /\ exists(fs', last'.ret)
              /\ load_tags(fs', last'.ret) = Self.tags
              /\ get_all_tags(load_tags(fs', last'.ret)) = get_all_tags(Self.tags)
              /\ tagger' = tagger]_vars

\* C2's case: an untagged file, title set to "a", copyright left empty, saved as
\* a new file whose reload gives title "a" and copyright "".
C2_Witness ==
    /\ mode = "lib"
    /\ last.op = "save_as_new_file"
    /\ last.err = ""
    /\ Self.file_path = SongA
    /\ fs[SongA] = InitialFiles[SongA]
    /\ get_tag(MP3Tagger(fs, last.ret).obj.tags, "title").ret = <<"a">>
    /\ get_tag(MP3Tagger(fs, last.ret).obj.tags, "copyright").ret = <<>>

\* The tail of the name as the specification writes it: U+00A9 alone.
ClaimedSuffix ==
    <<" ", "U+00A9", " ", "S", "t", "i", "f", "t", "e", "l", "s", "e", "n",
      " ", "S", "k", "j", "u", "l", "t", "e", " ", "S", "k", "a", "t", "t", "e", "r",
      " ", "F", "o", "r", "l", "a", "g", ".", "m", "p", "3">>

\* The tail of the name as the source writes it: U+00A9 followed by U+FE0F.
EmojiSuffix ==
    <<" ", "U+00A9", "U+FE0F", " ", "S", "t", "i", "f", "t", "e", "l", "s", "e", "n",
      " ", "S", "k", "j", "u", "l", "t", "e", " ", "S", "k", "a", "t", "t", "e", "r",
      " ", "F", "o", "r", "l", "a", "g", ".", "m", "p", "3">>

TitleOrUntitled(tags) ==
    IF "TIT2" \in DOMAIN tags /\ tags["TIT2"].text[1] # <<>>
    THEN tags["TIT2"].text[1]
    ELSE <<"U", "n", "t", "i", "t", "l", "e", "d">>

TargetDir(d) == IF d = None THEN Self.file_path.dir ELSE d

CatalogKeys == {"TIT2", "TPE1", "TEXT", "TCOM", "TCOP", "COMM::eng"}

KeyOf(tag_name) ==
    CASE tag_name = "title" -> "TIT2"
      [] tag_name = "artist" -> "TPE1"
      [] tag_name = "lyricist" -> "TEXT"
      [] tag_name = "composer" -> "TCOM"
      [] tag_name = "copyright" -> "TCOP"
      [] tag_name = "comment" -> "COMM::eng"

FromUntagged(t) ==
    /\ t # NoTagger
    /\ InitialFiles[t[1].file_path].header # "ok"

NoBlankFrame(t) ==
    \A k \in CatalogKeys \cap DOMAIN t[1].tags :
        \A i \in 1..Len(t[1].tags[k].text) : ~IsBlank(t[1].tags[k].text[i])

\* C4: on an object constructed from an untagged file no catalog frame ever
\* holds an empty or whitespace-only value; setField with such a value deletes
\* the mapped frame if present and changes nothing if it is absent.
C4_NoBlankFrameStored ==
    [][/\ (mode' # "web" /\ FromUntagged(tagger')) => NoBlankFrame(tagger')
       /\ \A n \in TagNames, v \in Texts :
             (SetTag(n, v) /\ IsBlank(v)) =>
                 /\ KeyOf(n) \notin DOMAIN tagger'[1].tags
                 /\ tagger'[1].tags = [k \in DOMAIN Self.tags \ {KeyOf(n)} |-> Self.tags[k]]
                 /\ (KeyOf(n) \notin DOMAIN Self.tags => tagger' = tagger)]_vars

\* C4's case: a frame stored on an object that came from an untagged file.
C4_Witness ==
    /\ mode = "lib"
    /\ last.op = "set_tag"
    /\ FromUntagged(tagger)
    /\ "TCOP" \in DOMAIN Self.tags
    /\ Self.tags["TCOP"].text = <<(<<"a", " ">>)>>

\* C5: getField and setField with a name outside the catalog fail with
\* InvalidField (ValueError) and leave the frames in memory as they were.
C5_UnknownNameFails ==
    [][\A n \in AnyNames \ TagNames :
          /\ GetTag(n) => (last'.err = "ValueError" /\ tagger' = tagger)
          /\ \A v \in Texts :
                SetTag(n, v) => (last'.err = "ValueError" /\ tagger' = tagger)]_vars

\* C5's case: a call failed with ValueError on an object that holds frames.
C5_Witness ==
    /\ mode = "lib"
    /\ last.op = "get_tag"
    /\ last.err = "ValueError"
    /\ DOMAIN Self.tags # {}

HasMp3Extension(path) ==
    /\ Len(path.name) >= 4
    /\ LET ext == SubSeq(path.name, Len(path.name) - 3, Len(path.name))
       IN  /\ ext[1] = "."
           /\ ext[2] \in {"m", "M"}
           /\ ext[3] \in {"p", "P"}
           /\ ext[4] = "3"

\* C6: Construct(path) fails with NotFound (FileNotFoundError) when the path
\* does not exist, whatever its extension, fails with InvalidFormat (ValueError)
\* when it exists and its extension is not .mp3 in any letter case, makes no
\* object in both cases, and passes both checks otherwise.
C6_ConstructChecks ==
    [][\A p \in ArgPaths :
          Construct(p) =>
              /\ ~exists(fs, p) => (last'.err = "FileNotFoundError" /\ tagger' = NoTagger)
              /\ (exists(fs, p) /\ ~HasMp3Extension(p)) =>
                     (last'.err = "ValueError" /\ tagger' = NoTagger)
              /\ (exists(fs, p) /\ HasMp3Extension(p)) =>
                     (last'.err = "" /\ tagger' # NoTagger /\ tagger'[1].file_path = p)]_vars

\* C6's case: an existing file whose extension is written in capitals was loaded.
C6_Witness ==
    /\ mode = "lib"
    /\ last.op = "init"
    /\ last.err = ""
    /\ Self.file_path = SongB

AllEmpty == [n \in TagNames |-> <<>>]

\* C7: constructing from an existing .mp3 file with no tag block, or with one the
\* library cannot parse, succeeds with an empty frame set, and listAllFields()
\* then returns the empty string for all six logical names.
C7_UntaggedLoadsEmpty ==
    /\ (mode = "lib" /\ last.op = "init" /\ exists(fs, last.ret)
            /\ HasMp3Extension(last.ret) /\ fs[last.ret].header # "ok") =>
           /\ last.err = ""
           /\ tagger # NoTagger
           /\ Self.tags = NoFrames
           /\ get_all_tags(Self.tags) = AllEmpty
    /\ (mode = "lib" /\ last.op = "get_all_tags" /\ FromUntagged(tagger) /\ nsets = 0) =>
           last.ret = AllEmpty

\* C7's case: listAllFields() answered on the object made from the file whose
\* tag block does not parse.
C7_Witness ==
    /\ mode = "lib"
    /\ last.op = "get_all_tags"
    /\ Self.file_path = SongU
    /\ nsets = 0
    /\ last.ret["title"] = <<>>

\* The frames of the file a save-as has just written.
Written == load_tags(fs', last'.ret)

\* C8: in the front ends' save-as flows (the web form's submit, the menu's
\* choice 7) the file written has the fixed default notice as its copyright
\* when the submitted (web) or current (menu) copyright is blank, and that
\* value otherwise (the web handler reads the form's value with its surrounding
\* whitespace stripped), and has the front end's fixed URL as its comment
\* whatever comment was stored or submitted.
C8_SaveAsPolicy ==
    [][/\ (last'.op = "edit_post" /\ last'.err = "") =>
             /\ get_tag(Written, "copyright").ret =
                    IF IsBlank(request'.form.copyright) THEN DefaultCopyright
                    ELSE strip(request'.form.copyright)
             /\ get_tag(Written, "comment").ret = WebComment
       /\ (last'.op = "menu_save_as" /\ last'.err = "") =>
             /\ get_tag(Written, "copyright").ret =
                    IF IsBlank(get_tag(Self.tags, "copyright").ret) THEN DefaultCopyright
                    ELSE get_tag(Self.tags, "copyright").ret
             /\ get_tag(Written, "comment").ret = CliComment]_vars

\* C8's case: a submit wrote a file carrying the default notice and the fixed
\* comment, from an upload that had a copyright and a comment of its own.
C8_Witness ==
    /\ mode = "web"
    /\ last.op = "edit_post"
    /\ last.err = ""
    /\ exists(fs, last.ret)
    /\ get_tag(load_tags(fs, last.ret), "copyright").ret = DefaultCopyright
    /\ get_tag(load_tags(fs, last.ret), "comment").ret = WebComment

\* The sessions' live tokens: <<client, token>> pairs.
LiveTokens(sess) == {ct \in Clients \X Tokens : ct[2] \in DOMAIN sess[ct[1]]}

\* C9: uploads made under two different session tokens never resolve to the
\* same temporary path, so a submit never removes or replaces the file that
\* another session's token points to.
C9_SessionsKeepTheirUploads ==
    [][/\ \A a \in LiveTokens(session'), b \in LiveTokens(session') :
             a # b => session'[a[1]][a[2]] # session'[b[1]][b[2]]
       /\ last'.op = "edit_post" =>
             \A a \in LiveTokens(session') :
                 exists(fs, session[a[1]][a[2]]) =>
                     /\ exists(fs', session[a[1]][a[2]])
                     /\ fs'[session[a[1]][a[2]]] = fs[session[a[1]][a[2]]]]_vars

C11_OperationsTouchOnlyTheirField ==
    [][/\ \A n \in AnyNames :
             (last'.op = "get_tag" /\ GetTag(n)) => (tagger' = tagger /\ fs' = fs)
       /\ (last'.op = "get_all_tags" /\ GetAllTags) =>
             /\ tagger' = tagger
             /\ fs' = fs
             /\ DOMAIN last'.ret = TagNames
             /\ \A n \in TagNames : last'.ret[n] = get_tag(Self.tags, n).ret
       /\ \A n \in TagNames, v \in Texts :
             (SetTag(n, v) /\ last'.err = "") =>
                 /\ fs' = fs
                 /\ tagger'[1].file_path = Self.file_path
                 /\ DOMAIN tagger'[1].tags \ {KeyOf(n)} = DOMAIN Self.tags \ {KeyOf(n)}
                 /\ \A k \in DOMAIN Self.tags \ {KeyOf(n)} :
                       tagger'[1].tags[k] = Self.tags[k]
                 /\ \A m \in TagNames \ {n} : GetAfter(m) = get_tag(Self.tags, m).ret]_vars

\* C11's case: the artist was set on the object loaded from the tagged file,
\* whose title, copyright and album frames are still what the file holds.
C11_Witness ==
    /\ mode = "lib"
    /\ last.op = "set_tag"
    /\ last.err = ""
    /\ Self.file_path = SongB
    /\ "TPE1" \in DOMAIN Self.tags
    /\ \A k \in DOMAIN FramesB : k \in DOMAIN Self.tags /\ Self.tags[k] = FramesB[k]

====
